---- MODULE Spec2Model ----
(***************************************************************************)
(* A model of rtabmap's EpipolarGeometry (corelib/src/EpipolarGeometry.cpp) *)
(* as a state machine: the correspondence matchers, the verification       *)
(* facade check(), pose recovery and batch triangulation.  Numerical       *)
(* library routines (cv::findFundamentalMat, cv::SVD, cvSVD,               *)
(* cv::triangulatePoints, cv::solve) are oracles: an action draws their    *)
(* result from a bounded set of results the routine's contract allows.     *)
(***************************************************************************)
EXTENDS Integers, Sequences, FiniteSets, TLC

(***************************************************************************)
(* Bounds of the model.                                                    *)
(***************************************************************************)
\* labels of the generated word maps are 1..MaxLabel
MaxLabel == 2
\* a label occurs 0..MaxMult times in a generated word map
MaxMult == 2
\* labels of the word maps handed to check() are 1..CheckLabels
CheckLabels == 3
\* _matchCountMinAccepted ranges over -MaxThreshold..MaxThreshold
MaxThreshold == 3

VARIABLES
    \* ---- correspondence matcher: one call of findPairs* in progress
    mpc,             \* "idle", "loop" (inside the for loop over ids), "done"
    fn,              \* the matcher called
    wordsA, wordsB,  \* the two std::multimap<int, cv::KeyPoint> arguments
    ids,             \* uUniqueKeys(wordsA)
    it,              \* position of the loop iterator in ids (1-based)
    pairs,           \* the caller's output list
    realPairsCount,  \* the running total, the value returned
    \* ---- verification facade: one call of check() in progress
    cpc,                    \* "idle", "match", "estimate", "decide", "done"
    ssA, ssB,               \* the two Signature pointers
    matchCountMinAccepted,  \* _matchCountMinAccepted
    cpairs,                 \* check()'s local list pairs
    f,                      \* check()'s local f, the estimator's matrix
    status,                 \* check()'s local inlier mask
    estCalls,               \* invocations of findFFromWords in this call
    ret,                    \* "none", "true", "false", "abort"
    \* ---- pose recovery: one call of findEpipolesFromF, findPFromF or
    \* findRTFromP in progress
    ppc,      \* "idle", "cases" (findPFromF trying its candidates), "done"
    pop,      \* the operation called
    arg,      \* its matrix argument: fundamentalMatrix, or findRTFromP's p
    svd,      \* the decomposition the SVD routine computed for the argument
    e1, e2,   \* findEpipolesFromF's output arguments
    p,        \* findPFromF's p
    pcase,    \* the candidate p holds (1..4), 0 outside findPFromF
    tests,    \* the cv::triangulatePoints calls so far: candidate and answer
    r, t,     \* findRTFromP's output arguments
    outcome,  \* "none", "return", "abort"
    \* ---- batch triangulation: one call of triangulatePoints
    tpc,              \* "idle", "loop", "done"
    pt_set1, pt_set2, \* the two point vectors
    P1,               \* the second camera
    X,                \* per pair so far, what iterativeLinearLSTriangulation returned
    pointcloud,       \* the output cloud
    reproj_errors,    \* the output error vector
    meanError,        \* the value returned
    \* ---- one call of iterativeLinearLSTriangulation
    ipc,       \* "idle", "loop" (at the head of the for loop), "done"
    camP,      \* the argument P
    camP1,     \* the argument P1
    wi, wi1,   \* the weights
    Xh,        \* the local X, a 4x1 matrix
    X_,        \* the local X_, the solver's 3x1 result
    iter,      \* the loop counter i
    overrun,   \* writes so far to an element past the end of X_
    ioutcome   \* "none", "return", "fault"

matchVars == <<mpc, fn, wordsA, wordsB, ids, it, pairs, realPairsCount>>
checkVars == <<cpc, ssA, ssB, matchCountMinAccepted, cpairs, f, status, estCalls, ret>>
poseVars == <<ppc, pop, arg, svd, e1, e2, p, pcase, tests, r, t, outcome>>
triVars == <<tpc, pt_set1, pt_set2, P1, X, pointcloud, reproj_errors, meanError>>
iterVars == <<ipc, camP, camP1, wi, wi1, Xh, X_, iter, overrun, ioutcome>>
vars == <<matchVars, checkVars, poseVars, triVars, iterVars>>

(***************************************************************************)
(* std::multimap<int, cv::KeyPoint>: a sequence of <<label, keypoint>>     *)
(* sorted by label.  A keypoint is identified by a number that encodes its *)
(* view, its label and its rank among the keypoints of that label.         *)
(***************************************************************************)
KeyPoint(view, label, j) == view * 1000 + label * 10 + j

Entries(view, label, k) == [j \in 1..k |-> <<label, KeyPoint(view, label, j)>>]

RECURSIVE MkMap(_, _, _)
MkMap(view, mult, n) ==
    IF n = 0 THEN <<>>
    ELSE MkMap(view, mult, n - 1) \o Entries(view, n, mult[n])

Maps(view, n, k) == {MkMap(view, m, n) : m \in [1..n -> 0..k]}

\* the example of the comments above findPairs, findPairsUnique, findPairsAll
DocA == MkMap(1, <<1, 1, 1, 1, 0, 2>>, 6)
DocB == MkMap(2, <<2, 1, 0, 1, 1, 2>>, 6)

\* word maps without duplicates, each with a label the other lacks
SparseA == MkMap(1, <<1, 1, 0, 1>>, 4)
SparseB == MkMap(2, <<1, 0, 1, 1>>, 4)

WordsInA == Maps(1, MaxLabel, MaxMult) \cup {DocA, SparseA}
WordsInB == Maps(2, MaxLabel, MaxMult) \cup {DocB, SparseB}

\* a correspondence left in the caller's list by earlier use
StalePair == <<9, <<KeyPoint(1, 9, 1), KeyPoint(2, 9, 1)>>>>
PriorLists == {<<>>, <<StalePair>>}

(***************************************************************************)
(* utilite helpers (UStl.h, UMath.h).                                      *)
(***************************************************************************)
Keys(m) == {m[k][1] : k \in 1..Len(m)}

RECURSIVE Ascending(_)
Ascending(S) ==
    IF S = {} THEN <<>>
    ELSE LET lo == CHOOSE x \in S : \A y \in S : x <= y
         IN <<lo>> \o Ascending(S \ {lo})

\* the distinct keys of the multimap, ascending
uUniqueKeys(m) == Ascending(Keys(m))

\* the values stored under key, in the multimap's order
uValues(m, key) ==
    LET sel == SelectSeq(m, LAMBDA e : e[1] = key)
    IN [k \in 1..Len(sel) |-> sel[k][2]]

RECURSIVE uSum(_)
uSum(v) == IF v = <<>> THEN 0 ELSE Head(v) + uSum(Tail(v))

(***************************************************************************)
(* The bodies of the three for loops over ids.  acc is the pair            *)
(* [pairs, realPairsCount] before the iteration; the result is the pair    *)
(* after it.                                                               *)
(***************************************************************************)
Corr(label, a, b) == <<label, <<a, b>>>>

\* UniqueStep with a correspondence emitted for a duplicated label too
UniqueStepEmitsDuplicates(wA, wB, label, acc) ==
    LET ptsA == uValues(wA, label)
        ptsB == uValues(wB, label)
    IN  IF Len(ptsA) >= 1 /\ Len(ptsB) >= 1
        THEN [pairs |-> Append(acc.pairs, Corr(label, Head(ptsA), Head(ptsB))),
              realPairsCount |-> acc.realPairsCount +
                  (IF Len(ptsA) > Len(ptsB) THEN Len(ptsB) ELSE Len(ptsA))]
        ELSE acc

\* findPairsUnique, lines 460-471
UniqueStep(wA, wB, label, acc) ==
    LET ptsA == uValues(wA, label)
        ptsB == uValues(wB, label)
    IN  IF Len(ptsA) = 1 /\ Len(ptsB) = 1
        THEN [pairs |-> Append(acc.pairs, Corr(label, Head(ptsA), Head(ptsB))),
              realPairsCount |-> acc.realPairsCount + 1]
        ELSE IF Len(ptsA) > 1 /\ Len(ptsB) > 1
        THEN [pairs |-> acc.pairs,
              realPairsCount |-> acc.realPairsCount +
                  (IF Len(ptsA) > Len(ptsB) THEN Len(ptsB) ELSE Len(ptsA))]
        ELSE acc

\* findPairsAll, lines 491-502: the count, then the cross product, A-major
AllStep(wA, wB, label, acc) ==
    LET ptsA == uValues(wA, label)
        ptsB == uValues(wB, label)
        la == Len(ptsA)
        lb == Len(ptsB)
        cross == [n \in 1..(la * lb) |->
                    Corr(label, ptsA[((n - 1) \div lb) + 1], ptsB[((n - 1) % lb) + 1])]
    IN  [pairs |-> acc.pairs \o cross,
         realPairsCount |-> acc.realPairsCount + (IF la > lb THEN lb ELSE la)]

\* std::multimap::find: the position of the first entry with the key, or
\* Len(m) + 1 for end()
Find(m, key) ==
    IF key \in Keys(m)
    THEN CHOOSE k \in 1..Len(m) : m[k][1] = key /\ \A j \in 1..(k - 1) : m[j][1] # key
    ELSE Len(m) + 1

\* findPairs, lines 435-441: the while loop that advances both iterators
RECURSIVE PairsWhile(_, _, _, _, _, _)
PairsWhile(wA, wB, label, iterA, iterB, acc) ==
    IF iterA <= Len(wA) /\ iterB <= Len(wB)
       /\ wA[iterA][1] = wB[iterB][1] /\ wA[iterA][1] = label
    THEN PairsWhile(wA, wB, label, iterA + 1, iterB + 1,
             [pairs |-> Append(acc.pairs, Corr(label, wA[iterA][2], wB[iterB][2])),
              realPairsCount |-> acc.realPairsCount + 1])
    ELSE acc

\* findPairs, lines 433-441
PairsStep(wA, wB, label, acc) ==
    PairsWhile(wA, wB, label, Find(wA, label), Find(wB, label), acc)

Step(g, wA, wB, label, acc) ==
    IF g = "findPairsUnique" THEN UniqueStep(wA, wB, label, acc)
    ELSE IF g = "findPairsAll" THEN AllStep(wA, wB, label, acc)
    ELSE PairsStep(wA, wB, label, acc)

RECURSIVE ForIds(_, _, _, _, _, _)
ForIds(g, wA, wB, keys, k, acc) ==
    IF k > Len(keys) THEN acc
    ELSE ForIds(g, wA, wB, keys, k + 1, Step(g, wA, wB, keys[k], acc))

(***************************************************************************)
(* The three matchers as functions of their arguments: out is the content  *)
(* of the output list at entry, the result is [pairs, realPairsCount] at   *)
(* return.                                                                 *)
(***************************************************************************)
Cleared(out) == <<>>

findPairs(wA, wB, out) ==
    ForIds("findPairs", wA, wB, uUniqueKeys(wA), 1,
           [pairs |-> Cleared(out), realPairsCount |-> 0])

findPairsUnique(wA, wB, out) ==
    ForIds("findPairsUnique", wA, wB, uUniqueKeys(wA), 1,
           [pairs |-> Cleared(out), realPairsCount |-> 0])

findPairsAll(wA, wB, out) ==
    ForIds("findPairsAll", wA, wB, uUniqueKeys(wA), 1,
           [pairs |-> Cleared(out), realPairsCount |-> 0])

(***************************************************************************)
(* The matcher, one loop iteration per step.                               *)
(***************************************************************************)
Matchers == {"findPairs", "findPairsUnique", "findPairsAll"}

MatchAtRest ==
    /\ mpc = "idle"
    /\ fn = "none"
    /\ wordsA = <<>>
    /\ wordsB = <<>>
    /\ ids = <<>>
    /\ it = 1
    /\ realPairsCount = 0

InitMatch ==
    /\ MatchAtRest
    /\ pairs \in PriorLists

\* MCall without pairs.clear()
MCallKeepsList ==
    /\ mpc = "idle"
    /\ mpc' = "loop"
    /\ \E g \in Matchers, wA \in WordsInA, wB \in WordsInB :
          /\ fn' = g
          /\ wordsA' = wA
          /\ wordsB' = wB
          /\ ids' = uUniqueKeys(wA)
    /\ pairs' = pairs
    /\ realPairsCount' = 0
    /\ it' = 1
    /\ UNCHANGED <<checkVars, poseVars, triVars, iterVars>>

\* entry of a matcher up to its for loop: uUniqueKeys, pairs.clear(), the
\* counter set to 0
MCall ==
    /\ mpc = "idle"
    /\ mpc' = "loop"
    /\ \E g \in Matchers, wA \in WordsInA, wB \in WordsInB :
          /\ fn' = g
          /\ wordsA' = wA
          /\ wordsB' = wB
          /\ ids' = uUniqueKeys(wA)
    /\ pairs' = <<>>
    /\ realPairsCount' = 0
    /\ it' = 1
    /\ UNCHANGED <<checkVars, poseVars, triVars, iterVars>>

\* one iteration of the for loop over ids
MIter ==
    /\ mpc = "loop"
    /\ it <= Len(ids)
    /\ LET acc == Step(fn, wordsA, wordsB, ids[it],
                       [pairs |-> pairs, realPairsCount |-> realPairsCount])
       IN  /\ pairs' = acc.pairs
           /\ realPairsCount' = acc.realPairsCount
    /\ it' = it + 1
    /\ UNCHANGED <<mpc, fn, wordsA, wordsB, ids>>
    /\ UNCHANGED <<checkVars, poseVars, triVars, iterVars>>

\* the loop ends: return realPairsCount
MExit ==
    /\ mpc = "loop"
    /\ it > Len(ids)
    /\ mpc' = "done"
    /\ UNCHANGED <<fn, wordsA, wordsB, ids, it, pairs, realPairsCount>>
    /\ UNCHANGED <<checkVars, poseVars, triVars, iterVars>>

\* the caller takes the result; its list holds anything at the next call
MReturn ==
    /\ mpc = "done"
    /\ mpc' = "idle"
    /\ fn' = "none"
    /\ wordsA' = <<>>
    /\ wordsB' = <<>>
    /\ ids' = <<>>
    /\ it' = 1
    /\ pairs' \in PriorLists
    /\ realPairsCount' = 0
    /\ UNCHANGED <<checkVars, poseVars, triVars, iterVars>>

NextMatch ==
    \/ MCall
    \/ MIter
    \/ MExit
    \/ MReturn

(***************************************************************************)
(* cv::Mat, as far as the code looks at it: size, type and elements.       *)
(***************************************************************************)
Mat(nr, nc, ty, d) == [rows |-> nr, cols |-> nc, type |-> ty, data |-> d]

\* cv::Mat()
EmptyMat == Mat(0, 0, "CV_8UC1", <<>>)

ZeroRows(nr, nc) == [i \in 1..nr |-> [j \in 1..nc |-> 0]]

\* the estimator's failure sentinel
ZeroF == Mat(3, 3, "CV_64FC1", ZeroRows(3, 3))

\* a fundamental matrix of rank 2
SomeF == Mat(3, 3, "CV_64FC1", <<<<0, 0, 0>>, <<0, 0, -1>>, <<0, 1, 0>>>>)

\* the 9x3 stack of three solutions of the 7-point method
StackedF == Mat(9, 3, "CV_64FC1", ZeroRows(9, 3))

\* what cv::findFundamentalMat can hand back for n point pairs: a matrix
\* and an inlier mask of n entries
FundamentalMatResults(n) ==
    [F : {ZeroF, SomeF, StackedF, EmptyMat}, mask : [1..n -> {0, 1}]]

\* lines 344-359
fundMatFound(fundamentalMatrix) ==
    /\ fundamentalMatrix.cols = 3
    /\ fundamentalMatrix.rows = 3
    /\ \E i \in 1..3, j \in 1..3 : fundamentalMatrix.data[i][j] # 0

\* findFFromWords given what cv::findFundamentalMat answers (lib): the
\* assertion on the type ends the call, otherwise the matrix is returned and
\* status holds the mask
findFFromWords(prs, lib) ==
    IF lib.F.type # "CV_64FC1"
    THEN [outcome |-> "abort", F |-> EmptyMat, status |-> lib.mask, found |-> FALSE]
    ELSE [outcome |-> "return", F |-> lib.F, status |-> lib.mask,
          found |-> fundMatFound(lib.F)]

(***************************************************************************)
(* Signatures: a pointer is null or gives a word map.                      *)
(***************************************************************************)
Signature(w) == [null |-> FALSE, words |-> w]
NullSignature == [null |-> TRUE, words |-> <<>>]

getWords(ss) == ss.words

UniqueMaps(view, n) == Maps(view, n, 1)

SignaturesA == {NullSignature} \cup {Signature(w) : w \in UniqueMaps(1, CheckLabels) \cup {DocA}}
SignaturesB == {NullSignature} \cup {Signature(w) : w \in UniqueMaps(2, CheckLabels) \cup {DocB}}

Thresholds == (0 - MaxThreshold)..MaxThreshold

(***************************************************************************)
(* check(), one step per stage.                                            *)
(***************************************************************************)
CheckAtRest ==
    /\ cpc = "idle"
    /\ ssA = NullSignature
    /\ ssB = NullSignature
    /\ cpairs = <<>>
    /\ f = EmptyMat
    /\ status = <<>>
    /\ estCalls = 0
    /\ ret = "none"

\* the constructor: the default, then parseParameters
InitCheck ==
    /\ CheckAtRest
    /\ matchCountMinAccepted \in Thresholds

\* parseParameters, between calls
parseParameters ==
    /\ cpc = "idle"
    /\ matchCountMinAccepted' \in Thresholds
    /\ UNCHANGED <<cpc, ssA, ssB, cpairs, f, status, estCalls, ret>>
    /\ UNCHANGED <<matchVars, poseVars, triVars, iterVars>>

\* lines 65-73: the null test
CheckCall ==
    /\ cpc = "idle"
    /\ cpairs' = <<>>
    /\ f' = EmptyMat
    /\ status' = <<>>
    /\ estCalls' = 0
    /\ \E a \in SignaturesA, b \in SignaturesB :
          /\ ssA' = a
          /\ ssB' = b
          /\ IF a = NullSignature \/ b = NullSignature
             THEN cpc' = "done" /\ ret' = "false"
             ELSE cpc' = "match" /\ ret' = "none"
    /\ UNCHANGED matchCountMinAccepted
    /\ UNCHANGED <<matchVars, poseVars, triVars, iterVars>>

\* CheckMatch without the short-circuit on the match count
CheckMatchAlwaysEstimates ==
    /\ cpc = "match"
    /\ cpairs' = findPairsUnique(getWords(ssA), getWords(ssB), cpairs).pairs
    /\ cpc' = "estimate"
    /\ ret' = "none"
    /\ UNCHANGED <<ssA, ssB, matchCountMinAccepted, f, status, estCalls>>
    /\ UNCHANGED <<matchVars, poseVars, triVars, iterVars>>

\* lines 75-80: findPairsUnique and the match-count test
CheckMatch ==
    /\ cpc = "match"
    /\ LET found == findPairsUnique(getWords(ssA), getWords(ssB), cpairs).pairs
       IN  /\ cpairs' = found
           /\ IF Len(found) < matchCountMinAccepted
              THEN cpc' = "done" /\ ret' = "false"
              ELSE cpc' = "estimate" /\ ret' = "none"
    /\ UNCHANGED <<ssA, ssB, matchCountMinAccepted, f, status, estCalls>>
    /\ UNCHANGED <<matchVars, poseVars, triVars, iterVars>>

\* lines 82-83: findFFromWords
CheckEstimate ==
    /\ cpc = "estimate"
    /\ estCalls' = estCalls + 1
    /\ \E lib \in FundamentalMatResults(Len(cpairs)) :
         LET res == findFFromWords(cpairs, lib)
         IN  /\ status' = res.status
             /\ f' = res.F
             /\ IF res.outcome = "abort"
                THEN cpc' = "done" /\ ret' = "abort"
                ELSE cpc' = "decide" /\ ret' = "none"
    /\ UNCHANGED <<ssA, ssB, matchCountMinAccepted, cpairs>>
    /\ UNCHANGED <<matchVars, poseVars, triVars, iterVars>>

\* CheckDecide with the inlier count required to exceed the threshold
CheckDecideStrict ==
    /\ cpc = "decide"
    /\ LET inliers == uSum(status)
       IN  IF inliers <= matchCountMinAccepted
           THEN ret' = "false"
           ELSE ret' = "true"
    /\ cpc' = "done"
    /\ UNCHANGED <<ssA, ssB, matchCountMinAccepted, cpairs, f, status, estCalls>>
    /\ UNCHANGED <<matchVars, poseVars, triVars, iterVars>>

\* lines 85-95: the inlier test
CheckDecide ==
    /\ cpc = "decide"
    /\ LET inliers == uSum(status)
       IN  IF inliers < matchCountMinAccepted
           THEN ret' = "false"
           ELSE ret' = "true"
    /\ cpc' = "done"
    /\ UNCHANGED <<ssA, ssB, matchCountMinAccepted, cpairs, f, status, estCalls>>
    /\ UNCHANGED <<matchVars, poseVars, triVars, iterVars>>

\* the caller takes the result
CheckReturn ==
    /\ cpc = "done"
    /\ cpc' = "idle"
    /\ ssA' = NullSignature
    /\ ssB' = NullSignature
    /\ cpairs' = <<>>
    /\ f' = EmptyMat
    /\ status' = <<>>
    /\ estCalls' = 0
    /\ ret' = "none"
    /\ UNCHANGED matchCountMinAccepted
    /\ UNCHANGED <<matchVars, poseVars, triVars, iterVars>>

NextCheck ==
    \/ parseParameters
    \/ CheckCall
    \/ CheckMatch
    \/ CheckEstimate
    \/ CheckDecide
    \/ CheckReturn

(***************************************************************************)
(* Matrix arithmetic.  The elements of a matrix are a tuple of rows.       *)
(***************************************************************************)
RECURSIVE DotTo(_, _, _)
DotTo(a, b, n) == IF n = 0 THEN 0 ELSE DotTo(a, b, n - 1) + a[n] * b[n]

Dot(a, b) == DotTo(a, b, Len(a))

Col(A, j) == [i \in 1..Len(A) |-> A[i][j]]

Transpose(A) == [j \in 1..Len(A[1]) |-> Col(A, j)]

MatMul(A, B) == [i \in 1..Len(A) |-> [j \in 1..Len(B[1]) |-> Dot(A[i], Col(B, j))]]

MatVec(A, x) == [i \in 1..Len(A) |-> Dot(A[i], x)]

Neg(x) == [i \in 1..Len(x) |-> 0 - x[i]]

NegMat(A) == [i \in 1..Len(A) |-> Neg(A[i])]

Diag(w) == [i \in 1..Len(w) |-> [j \in 1..Len(w) |-> IF i = j THEN w[i] ELSE 0]]

\* the 2x2 minor of a 3x3 matrix without row i and column j
Minor(A, i, j) ==
    LET rs == IF i = 1 THEN <<2, 3>> ELSE IF i = 2 THEN <<1, 3>> ELSE <<1, 2>>
        cs == IF j = 1 THEN <<2, 3>> ELSE IF j = 2 THEN <<1, 3>> ELSE <<1, 2>>
    IN  A[rs[1]][cs[1]] * A[rs[2]][cs[2]] - A[rs[1]][cs[2]] * A[rs[2]][cs[1]]

Cofactor(A, i, j) == (IF (i + j) % 2 = 0 THEN 1 ELSE 0 - 1) * Minor(A, i, j)

Det3(A) == A[1][1] * Cofactor(A, 1, 1) + A[1][2] * Cofactor(A, 1, 2)
               + A[1][3] * Cofactor(A, 1, 3)

\* cv::Mat::inv() of a 3x3 matrix: the zero matrix for a singular one;
\* the division is exact for the matrices of determinant 1 or -1 used here
Inv3(A) ==
    IF Det3(A) = 0 THEN ZeroRows(3, 3)
    ELSE [i \in 1..3 |-> [j \in 1..3 |-> Cofactor(A, j, i) \div Det3(A)]]

(***************************************************************************)
(* The SVD routines.  A decomposition is [u, w, v] with orthogonal u and v *)
(* and singular values w: the matrix it decomposes is u * diag(w) * v^T.   *)
(* The orthogonal matrices of the model are permutation matrices with the  *)
(* last column's sign free, the sign the SVD leaves open.                  *)
(***************************************************************************)
PermMat(perm, sgn) ==
    [i \in 1..3 |-> [j \in 1..3 |-> IF perm[j] = i THEN (IF j = 3 THEN sgn ELSE 1) ELSE 0]]

Orthogonal == {PermMat(perm, sgn) : perm \in Permutations({1, 2, 3}), sgn \in {1, 0 - 1}}

\* singular values of a rank-2 matrix
SingularValues == {<<2, 1, 0>>}

Decompositions == [u : Orthogonal, w : SingularValues, v : Orthogonal]

NoDecomposition == [u |-> <<>>, w |-> <<>>, v |-> <<>>]

Compose(d) == MatMul(MatMul(d.u, Diag(d.w)), Transpose(d.v))

\* cv::SVD svd(F): svd.u, svd.w, svd.vt
cvSVDClass(d) == [u |-> d.u, w |-> d.w, vt |-> Transpose(d.v)]

\* cvSVD(&F, &S, &U, &V, CV_SVD_U_T|CV_SVD_V_T): U and V come back transposed
cvSVD(d) == [U |-> Transpose(d.u), S |-> Diag(d.w), V |-> Transpose(d.v)]

\* a valid fundamental matrix argument together with a decomposition of it
ValidFArgs == {[F |-> Mat(3, 3, "CV_64FC1", Compose(d)), d |-> d] : d \in Decompositions}

\* arguments of the wrong size or type
BadF == {Mat(2, 3, "CV_64FC1", ZeroRows(2, 3)),
         Mat(3, 4, "CV_64FC1", ZeroRows(3, 4)),
         Mat(3, 3, "CV_32FC1", SomeF.data),
         EmptyMat}

FArgs == ValidFArgs \cup {[F |-> m, d |-> NoDecomposition] : m \in BadF}

\* what the caller's output arguments hold before a call
StaleVec == <<7, 8, 9>>

PoseAtRest ==
    /\ ppc = "idle"
    /\ pop = "none"
    /\ arg = EmptyMat
    /\ svd = NoDecomposition
    /\ e1 = StaleVec
    /\ e2 = StaleVec
    /\ p = EmptyMat
    /\ pcase = 0
    /\ tests = <<>>
    /\ r = EmptyMat
    /\ t = EmptyMat
    /\ outcome = "none"

(***************************************************************************)
(* findEpipolesFromF                                                       *)
(***************************************************************************)
\* lines 100-130: the new values of e1 and e2
findEpipolesFromF(fundamentalMatrix, d, e1In, e2In) ==
    IF fundamentalMatrix.rows # 3 \/ fundamentalMatrix.cols # 3
    THEN [e1 |-> e1In, e2 |-> e2In]
    ELSE IF fundamentalMatrix.type # "CV_64FC1"
    THEN [e1 |-> e1In, e2 |-> e2In]
    ELSE LET u == cvSVDClass(d).u
             v == cvSVDClass(d).vt
         IN  [e1 |-> <<v[1][3], v[2][3], v[3][3]>>,
              e2 |-> <<u[1][3], u[2][3], u[3][3]>>]

EpipolesCall ==
    /\ ppc = "idle"
    /\ ppc' = "done"
    /\ pop' = "findEpipolesFromF"
    /\ outcome' = "return"
    /\ \E a \in FArgs :
          /\ arg' = a.F
          /\ svd' = a.d
          /\ e1' = findEpipolesFromF(a.F, a.d, e1, e2).e1
          /\ e2' = findEpipolesFromF(a.F, a.d, e1, e2).e2
    /\ UNCHANGED <<p, pcase, tests, r, t>>
    /\ UNCHANGED <<matchVars, checkVars, triVars, iterVars>>

(***************************************************************************)
(* findPFromF                                                              *)
(***************************************************************************)
\* lines 154-157
P0 == <<<<1, 0, 0, 0>>, <<0, 1, 0, 0>>, <<0, 0, 1, 0>>>>

\* lines 191-194
skew == <<<<0, 0 - 1, 0>>, <<1, 0, 0>>, <<0, 0, 1>>>>

\* the element assignments p.at(i, j) = r.at(i, j), i, j < 3
SetRotation(pd, rot) ==
    [i \in 1..3 |-> [j \in 1..4 |-> IF j <= 3 THEN rot[i][j] ELSE pd[i][j]]]

\* the element assignments p.at(i, 3) = tr.at(i, 0)
SetTranslation(pd, tr) ==
    [i \in 1..3 |-> [j \in 1..4 |-> IF j = 4 THEN tr[i] ELSE pd[i][j]]]

\* lines 173-184: u, v and e from what cvSVD wrote
LeftFactor(d) == Transpose(cvSVD(d).U)
RightFactor(d) == Transpose(cvSVD(d).V)
Epipole(d) == Col(LeftFactor(d), 3)

\* lines 205-218: case 1
FirstCandidate(d) ==
    LET rot == MatMul(MatMul(LeftFactor(d), skew), Transpose(RightFactor(d)))
    IN  SetTranslation(SetRotation(ZeroRows(3, 4), rot), Epipole(d))

\* NextCandidate with case 3 keeping the translation case 2 left in p
NextCandidateKeepsTranslation(pd, k, d) ==
    IF k = 3
    THEN SetRotation(pd, MatMul(MatMul(LeftFactor(d), Transpose(skew)),
                                Transpose(RightFactor(d))))
    ELSE SetTranslation(pd, Neg(Epipole(d)))

\* lines 231-234, 244-258, 268-271: p turned into candidate k = 2, 3, 4
NextCandidate(pd, k, d) ==
    IF k = 3
    THEN LET rot == MatMul(MatMul(LeftFactor(d), Transpose(skew)),
                           Transpose(RightFactor(d)))
         IN  SetTranslation(SetRotation(pd, rot), Epipole(d))
    ELSE SetTranslation(pd, Neg(Epipole(d)))

\* what cv::triangulatePoints can answer: homogeneous points
TriangulatedPoints ==
    {<<0, 0, 4, 2>>, <<0, 0, 0 - 2, 1>>, <<2, 0 - 2, 0, 1>>, <<0, 0, 0, 1>>, <<0 - 4, 4, 4, 2>>}

\* lines 221-224: the four divisions by x4d(3)
Dehomogenize(x4d) == [i \in 1..4 |-> x4d[i] \div x4d[4]]

\* lines 226-229: the test that sends the code to the next case
BehindCamera(pd, x4d) ==
    LET xt1 == MatVec(P0, Dehomogenize(x4d))
        xt2 == MatVec(pd, Dehomogenize(x4d))
    IN  xt1[3] < 0 \/ xt2[3] < 0

\* lines 135-218: the argument checks, the SVD and case 1
PFromFCall ==
    /\ ppc = "idle"
    /\ pop' = "findPFromF"
    /\ tests' = <<>>
    /\ \E a \in FArgs :
          /\ arg' = a.F
          /\ svd' = a.d
          /\ IF a.F.rows # 3 \/ a.F.cols # 3 \/ a.F.type # "CV_64FC1"
             THEN /\ p' = EmptyMat
                  /\ pcase' = 0
                  /\ ppc' = "done"
                  /\ outcome' = "return"
             ELSE /\ p' = Mat(3, 4, "CV_64FC1", FirstCandidate(a.d))
                  /\ pcase' = 1
                  /\ ppc' = "cases"
                  /\ outcome' = "none"
    /\ UNCHANGED <<e1, e2, r, t>>
    /\ UNCHANGED <<matchVars, checkVars, triVars, iterVars>>

\* lines 220-295: triangulate with the candidate in p, test the depths, and
\* go on to the next candidate or return p
PFromFCase ==
    /\ ppc = "cases"
    /\ \E x4d \in TriangulatedPoints :
          /\ tests' = Append(tests, [p |-> p.data, x4d |-> x4d])
          /\ IF pcase < 4 /\ BehindCamera(p.data, x4d)
             THEN /\ p' = Mat(3, 4, "CV_64FC1", NextCandidate(p.data, pcase + 1, svd))
                  /\ pcase' = pcase + 1
                  /\ ppc' = "cases"
                  /\ outcome' = "none"
             ELSE /\ ppc' = "done"
                  /\ outcome' = "return"
                  /\ UNCHANGED <<p, pcase>>
    /\ UNCHANGED <<pop, arg, svd, e1, e2, r, t>>
    /\ UNCHANGED <<matchVars, checkVars, triVars, iterVars>>

(***************************************************************************)
(* findRTFromP                                                             *)
(***************************************************************************)
\* valid arguments: the candidates findPFromF builds
ValidPArgs == {Mat(3, 4, "CV_64FC1", NextCandidate(FirstCandidate(d), k, d)) :
                  d \in Decompositions, k \in {2, 3}}

\* arguments that are not 3x4
BadP == {Mat(3, 3, "CV_64FC1", SomeF.data),
         Mat(4, 4, "CV_64FC1", ZeroRows(4, 4)),
         EmptyMat}

\* lines 381-394: the assertion, then r and t
findRTFromP(pIn, rIn, tIn) ==
    IF ~(pIn.cols = 4 /\ pIn.rows = 3)
    THEN [outcome |-> "abort", r |-> rIn, t |-> tIn]
    ELSE LET block == [i \in 1..3 |-> [j \in 1..3 |-> pIn.data[i][j]]]
             rot == NegMat(Inv3(block))
         IN  [outcome |-> "return",
              r |-> Mat(3, 3, pIn.type, rot),
              t |-> Mat(3, 1, pIn.type,
                        [i \in 1..3 |-> <<MatVec(rot, Col(pIn.data, 4))[i]>>])]

RTFromPCall ==
    /\ ppc = "idle"
    /\ ppc' = "done"
    /\ pop' = "findRTFromP"
    /\ \E a \in ValidPArgs \cup BadP :
          /\ arg' = a
          /\ r' = findRTFromP(a, r, t).r
          /\ t' = findRTFromP(a, r, t).t
          /\ outcome' = findRTFromP(a, r, t).outcome
    /\ UNCHANGED <<svd, e1, e2, p, pcase, tests>>
    /\ UNCHANGED <<matchVars, checkVars, triVars, iterVars>>

\* the caller takes the results
PoseReturn ==
    /\ ppc = "done"
    /\ ppc' = "idle"
    /\ pop' = "none"
    /\ arg' = EmptyMat
    /\ svd' = NoDecomposition
    /\ e1' = StaleVec
    /\ e2' = StaleVec
    /\ p' = EmptyMat
    /\ pcase' = 0
    /\ tests' = <<>>
    /\ r' = EmptyMat
    /\ t' = EmptyMat
    /\ outcome' = "none"
    /\ UNCHANGED <<matchVars, checkVars, triVars, iterVars>>

NextPose ==
    \/ EpipolesCall
    \/ PFromFCall
    \/ PFromFCase
    \/ RTFromPCall
    \/ PoseReturn

(***************************************************************************)
(* triangulatePoints.  Coordinates are integers; a call is modelled for    *)
(* arguments on which the divisions, the square roots and the mean of the  *)
(* code come out as integers, so that integer arithmetic computes what the *)
(* floating-point code computes.                                           *)
(***************************************************************************)
\* at most MaxPoints point pairs per call
MaxPoints == 2

\* cv::Point2f image points
ImagePoints == {<<0, 0>>, <<3, 4>>}

\* the second camera, [I | tr]
Cameras == {SetTranslation(P0, tr) : tr \in {<<0, 0, 0>>, <<3, 0, 0>>}}

\* what iterativeLinearLSTriangulation can return: the solver's x, y, z in
\* X(0..2), and X(3), which no statement of the function assigns
IterativeResults ==
    {<<xy[1] * z, xy[2] * z, z, g>> : xy \in ImagePoints, z \in {1, 2}, g \in {0, 1}}

\* lines 614-615: P1 * X, then the division by the third component
Reproject(cam, x) ==
    LET xPt_img == MatVec(cam, x)
    IN  <<xPt_img[1] \div xPt_img[3], xPt_img[2] \div xPt_img[3]>>

ISqrt(n) == CHOOSE k \in 0..n : k * k <= n /\ n < (k + 1) * (k + 1)

\* cv::norm of a 2-vector
norm(d) == ISqrt(d[1] * d[1] + d[2] * d[2])

Minus(a, b) == [i \in 1..Len(a) |-> a[i] - b[i]]

\* line 617: the residual recorded for a pair, pt1 its point of pt_set1 and
\* pt2 its point of pt_set2
ReprojectionError(cam, x, pt1, pt2) == norm(Minus(Reproject(cam, x), pt1))

\* cv::mean of a vector, as the fraction num / den
mean(v) == [num |-> uSum(v), den |-> Len(v)]

IsSquare(n) == ISqrt(n) * ISqrt(n) = n

\* the divisions and square roots of a pair are exact
Representable(cam, x, pt1, pt2) ==
    LET xPt_img == MatVec(cam, x)
        d1 == Minus(Reproject(cam, x), pt1)
        d2 == Minus(Reproject(cam, x), pt2)
    IN  /\ xPt_img[3] # 0
        /\ xPt_img[1] % xPt_img[3] = 0
        /\ xPt_img[2] % xPt_img[3] = 0
        /\ IsSquare(d1[1] * d1[1] + d1[2] * d1[2])
        /\ IsSquare(d2[1] * d2[1] + d2[2] * d2[2])

NoMean == [num |-> 0, den |-> 0]

TriAtRest ==
    /\ tpc = "idle"
    /\ pt_set1 = <<>>
    /\ pt_set2 = <<>>
    /\ P1 = P0
    /\ X = <<>>
    /\ pointcloud = <<>>
    /\ reproj_errors = <<>>
    /\ meanError = NoMean

\* lines 592-605: a fresh cloud, cloud and error vector resized
triangulatePoints ==
    /\ tpc = "idle"
    /\ tpc' = "loop"
    /\ \E n \in 1..MaxPoints :
       \E s1 \in [1..n -> ImagePoints], s2 \in [1..n -> ImagePoints], cam \in Cameras :
          /\ pt_set1' = s1
          /\ pt_set2' = s2
          /\ P1' = cam
          /\ pointcloud' = [i \in 1..n |-> <<0, 0, 0>>]
          /\ reproj_errors' = [i \in 1..n |-> 0]
    /\ X' = <<>>
    /\ UNCHANGED meanError
    /\ UNCHANGED <<matchVars, checkVars, poseVars, iterVars>>

\* lines 607-620: the iteration for pair i = Len(X) + 1
TriIter ==
    /\ tpc = "loop"
    /\ Len(X) < Len(pt_set1)
    /\ LET i == Len(X) + 1
       IN  \E x \in IterativeResults :
              /\ Representable(P1, x, pt_set1[i], pt_set2[i])
              /\ X' = Append(X, x)
              /\ reproj_errors' =
                    [reproj_errors EXCEPT
                        ![i] = ReprojectionError(P1, x, pt_set1[i], pt_set2[i])]
              /\ pointcloud' = [pointcloud EXCEPT ![i] = <<x[1], x[2], x[3]>>]
    /\ UNCHANGED <<tpc, pt_set1, pt_set2, P1, meanError>>
    /\ UNCHANGED <<matchVars, checkVars, poseVars, iterVars>>

\* line 622
TriExit ==
    /\ tpc = "loop"
    /\ Len(X) = Len(pt_set1)
    /\ tpc' = "done"
    /\ meanError' = mean(reproj_errors)
    /\ UNCHANGED <<pt_set1, pt_set2, P1, X, pointcloud, reproj_errors>>
    /\ UNCHANGED <<matchVars, checkVars, poseVars, iterVars>>

\* the caller takes the results
TriReturn ==
    /\ tpc = "done"
    /\ tpc' = "idle"
    /\ pt_set1' = <<>>
    /\ pt_set2' = <<>>
    /\ P1' = P0
    /\ X' = <<>>
    /\ pointcloud' = <<>>
    /\ reproj_errors' = <<>>
    /\ meanError' = NoMean
    /\ UNCHANGED <<matchVars, checkVars, poseVars, iterVars>>

NextTri ==
    \/ triangulatePoints
    \/ TriIter
    \/ TriExit
    \/ TriReturn

(***************************************************************************)
(* iterativeLinearLSTriangulation, statement by statement.  Doubles are     *)
(* fixed-point numbers counted in units of EPSILON (1e-4), so that a weight *)
(* change of exactly EPSILON, of less and of more are all representable.   *)
(* cv::solve is an oracle.  The matrices A and B are built from u, u1, P   *)
(* and P1 and are read by cv::solve alone, so they stay inside the oracle. *)
(***************************************************************************)
\* line 553: EPSILON = 0.0001, the unit
EPSILON == 1

\* lines 552, 557: the double 1.0
One == 10000

\* line 558: i < 10
MaxIterations == 10

\* the cameras of a call, [I | tr]; the third row is what the weights read
IterCameras == {SetTranslation(P0, tr) : tr \in {<<0, 0, 0>>, <<0, 0, 1>>}}

\* lines 537, 582: what cv::solve can store in its 3x1 output
solve ==
    {<<0, 0, z>> : z \in {One, One + EPSILON, One + 2 * EPSILON, 2 * One}}

\* lines 514-540: linearLSTriangulation returns the solver's 3x1 matrix
linearLSTriangulation == solve

\* line 555: cv::Mat_<double> X(4,1) allocates and does not fill; what the
\* four doubles hold is whatever the memory held
Uninitialized == {0, One, 3 * One}

\* cv::Mat::row(2) of a 3x4 camera matrix
Row2(cam) == cam[3]

\* lines 561-562: P.row(2) * X, a 1x4 by 4x1 product
Weight(cam, x) == Dot(Row2(cam), x)

\* fabs
fabs(a) == IF a < 0 THEN 0 - a ELSE a

\* line 565: the breaking point
BreakingPoint(w, w1, p2x, p2x1) ==
    fabs(w - p2x) <= EPSILON /\ fabs(w1 - p2x1) <= EPSILON

\* lines 557, 583: X(0) = X_(0); X(1) = X_(1); X(2) = X_(2); element 3 of X
\* is on no left-hand side
CopyEstimate(x, solved) == <<solved[1], solved[2], solved[3], x[4]>>

\* the element X_(3) = 1.0 addresses: Mat_::operator()(int) of a continuous
\* 3x1 matrix is data[3], one element past its three
WrittenIndex == 3

Rows(solved) == Len(solved)

IterAtRest ==
    /\ ipc = "idle"
    /\ camP = P0
    /\ camP1 = P0
    /\ wi = One
    /\ wi1 = One
    /\ Xh = <<0, 0, 0, 0>>
    /\ X_ = <<0, 0, 0>>
    /\ iter = 0
    /\ overrun = 0
    /\ ioutcome = "none"

\* lines 557, 583, last statement: X_(3) = 1.0.  Inside the matrix it would
\* store 1.0; past its end the store is undefined behaviour: the element
\* check of a debug build raises, a release build stores outside the
\* matrix and goes on, or the damaged heap ends the call.  X_ itself keeps
\* its three elements either way.
StoreOne(solved, fault, pcNext) ==
    IF WrittenIndex < Rows(solved)
    THEN /\ X_' = [solved EXCEPT ![WrittenIndex + 1] = One]
         /\ overrun' = overrun
         /\ ipc' = pcNext
         /\ ioutcome' = ioutcome
    ELSE /\ X_' = solved
         /\ overrun' = overrun + 1
         /\ ipc' = IF fault THEN "done" ELSE pcNext
         /\ ioutcome' = IF fault THEN "fault" ELSE ioutcome

\* lines 546-557: the declarations, the first solve and the copy into X
iterativeLinearLSTriangulation ==
    /\ ipc = "idle"
    /\ \E cam \in IterCameras, g \in Uninitialized,
          solved \in linearLSTriangulation, fault \in BOOLEAN :
          /\ camP' = P0
          /\ camP1' = cam
          /\ wi' = One
          /\ wi1' = One
          /\ Xh' = CopyEstimate(<<g, g, g, g>>, solved)
          /\ StoreOne(solved, fault, "loop")
    /\ iter' = 0
    /\ UNCHANGED <<matchVars, checkVars, poseVars, triVars>>

\* lines 558-565: i < 10, the weights, and the break
IterBreak ==
    /\ ipc = "loop"
    /\ iter < MaxIterations
    /\ BreakingPoint(wi, wi1, Weight(camP, Xh), Weight(camP1, Xh))
    /\ ipc' = "done"
    /\ ioutcome' = "return"
    /\ UNCHANGED <<camP, camP1, wi, wi1, Xh, X_, iter, overrun>>
    /\ UNCHANGED <<matchVars, checkVars, poseVars, triVars>>

\* lines 558-584: i < 10, the weights, no break, the re-solve, the copy, i++
IterResolve ==
    /\ ipc = "loop"
    /\ iter < MaxIterations
    /\ ~BreakingPoint(wi, wi1, Weight(camP, Xh), Weight(camP1, Xh))
    /\ wi' = Weight(camP, Xh)
    /\ wi1' = Weight(camP1, Xh)
    /\ \E solved \in solve, fault \in BOOLEAN :
          /\ Xh' = CopyEstimate(Xh, solved)
          /\ StoreOne(solved, fault, "loop")
    /\ iter' = iter + 1
    /\ UNCHANGED <<camP, camP1>>
    /\ UNCHANGED <<matchVars, checkVars, poseVars, triVars>>

\* line 558: i == 10 ends the loop; line 585
IterExhausted ==
    /\ ipc = "loop"
    /\ iter = MaxIterations
    /\ ipc' = "done"
    /\ ioutcome' = "return"
    /\ UNCHANGED <<camP, camP1, wi, wi1, Xh, X_, iter, overrun>>
    /\ UNCHANGED <<matchVars, checkVars, poseVars, triVars>>

\* the caller takes X
IterReturn ==
    /\ ipc = "done"
    /\ ipc' = "idle"
    /\ camP' = P0
    /\ camP1' = P0
    /\ wi' = One
    /\ wi1' = One
    /\ Xh' = <<0, 0, 0, 0>>
    /\ X_' = <<0, 0, 0>>
    /\ iter' = 0
    /\ overrun' = 0
    /\ ioutcome' = "none"
    /\ UNCHANGED <<matchVars, checkVars, poseVars, triVars>>

NextIter ==
    \/ iterativeLinearLSTriangulation
    \/ IterBreak
    \/ IterResolve
    \/ IterExhausted
    \/ IterReturn

(***************************************************************************)
(* Specifications, one per component: the other components stay at rest.   *)
(***************************************************************************)
FacadeAtRest == CheckAtRest /\ matchCountMinAccepted = 0

MatcherAtRest == MatchAtRest /\ pairs = <<>>

InitPairs == InitMatch /\ FacadeAtRest /\ PoseAtRest /\ TriAtRest /\ IterAtRest

InitFacade == InitCheck /\ MatcherAtRest /\ PoseAtRest /\ TriAtRest /\ IterAtRest

InitPose == PoseAtRest /\ MatcherAtRest /\ FacadeAtRest /\ TriAtRest /\ IterAtRest

InitTri == TriAtRest /\ MatcherAtRest /\ FacadeAtRest /\ PoseAtRest /\ IterAtRest

InitIter ==
    IterAtRest /\ MatcherAtRest /\ FacadeAtRest /\ PoseAtRest /\ TriAtRest

SpecPairs == InitPairs /\ [][NextMatch]_vars

SpecCheck == InitFacade /\ [][NextCheck]_vars

SpecPose == InitPose /\ [][NextPose]_vars

SpecTri == InitTri /\ [][NextTri]_vars

SpecIter == InitIter /\ [][NextIter]_vars

(***************************************************************************)
(* Vocabulary of the properties, defined on the arguments alone.           *)
(***************************************************************************)
\* the number of entries of the multimap with the label
Count(m, label) == Cardinality({k \in 1..Len(m) : m[k][1] = label})

Min(a, b) == IF a < b THEN a ELSE b

\* no label occurs twice
NoDuplicates(m) == \A label \in Keys(m) : Count(m, label) = 1

RECURSIVE SumOfMin(_, _, _)
SumOfMin(wA, wB, labels) ==
    IF labels = {} THEN 0
    ELSE LET l == CHOOSE x \in labels : TRUE
         IN Min(Count(wA, l), Count(wB, l)) + SumOfMin(wA, wB, labels \ {l})

\* the sum over the labels of A of min(|A_L|, |B_L|)
Pairable(wA, wB) == SumOfMin(wA, wB, Keys(wA))

\* the only entry of the multimap with the label
Only(m, label) == m[CHOOSE k \in 1..Len(m) : m[k][1] = label][2]

BothPresent == ssA # NullSignature /\ ssB # NullSignature

\* the correspondences unique-pairs matching yields for the two signatures
MatchCount == Len(findPairsUnique(getWords(ssA), getWords(ssB), <<>>).pairs)

\* findFFromWords was called and returned a matrix and a mask
EstimatorReturned == estCalls = 1 /\ f.type = "CV_64FC1"

EstimatorGuarded ==
    /\ estCalls <= 1
    /\ (cpc # "idle" /\ (~BothPresent \/ MatchCount < matchCountMinAccepted)) =>
          /\ estCalls = 0
          /\ cpc \in {"match", "done"}
          /\ cpc = "done" => ret = "false"

\* a call rejected at the match-count test, with correspondences found
EstimatorGuardedWitness ==
    /\ cpc = "done"
    /\ BothPresent
    /\ Len(cpairs) = 2
    /\ matchCountMinAccepted = 3
    /\ estCalls = 0
    /\ ret = "false"

\* C10: check() never returns true when findFFromWords returned the all-zero
\* 3x3 matrix or a matrix that is not 3x3.
ZeroMatrixRejected ==
    (cpc = "done" /\ EstimatorReturned /\ ~fundMatFound(f)) => ret # "true"

UniqueCountIsPairable ==
    (mpc = "done" /\ fn = "findPairsUnique") =>
        /\ realPairsCount = Pairable(wordsA, wordsB)
        /\ realPairsCount = findPairsAll(wordsA, wordsB, <<>>).realPairsCount
        /\ realPairsCount = findPairs(wordsA, wordsB, <<>>).realPairsCount
        /\ (wordsA = DocA /\ wordsB = DocB) => realPairsCount = 5

\* C5: for arguments without duplicate labels, findPairsUnique and
\* findPairsAll leave the same correspondence sequence, in ascending label
\* order, in the output list and return the same count, whatever the list
\* held at entry.
UniqueEqualsAllWithoutDuplicates ==
    (mpc = "done" /\ NoDuplicates(wordsA) /\ NoDuplicates(wordsB)) =>
        /\ \A out \in PriorLists :
              /\ fn = "findPairsUnique" =>
                    [pairs |-> pairs, realPairsCount |-> realPairsCount]
                        = findPairsAll(wordsA, wordsB, out)
              /\ fn = "findPairsAll" =>
                    [pairs |-> pairs, realPairsCount |-> realPairsCount]
                        = findPairsUnique(wordsA, wordsB, out)
        /\ fn \in {"findPairsUnique", "findPairsAll"} =>
              \A k \in 1..(Len(pairs) - 1) : pairs[k][1] < pairs[k + 1][1]

\* findPairsUnique has returned two correspondences for duplicate-free
\* arguments, one label of A being absent from B and one of B from A
UniqueEqualsAllWitness ==
    /\ mpc = "done"
    /\ fn = "findPairsUnique"
    /\ NoDuplicates(wordsA)
    /\ NoDuplicates(wordsB)
    /\ Len(pairs) = 2
    /\ Keys(wordsA) \ Keys(wordsB) # {}
    /\ Keys(wordsB) \ Keys(wordsA) # {}

(***************************************************************************)
(* Properties of pose recovery.                                            *)
(***************************************************************************)
\* a 3x3 matrix of doubles
ValidF(m) == m.rows = 3 /\ m.cols = 3 /\ m.type = "CV_64FC1"

\* candidate k of the decomposition F = U diag(w) V^T:
\* [U W V^T | +e], [U W V^T | -e], [U W^T V^T | +e], [U W^T V^T | -e],
\* e the last column of U
Candidate(k, d) ==
    LET W == IF k <= 2 THEN skew ELSE Transpose(skew)
        rot == MatMul(MatMul(d.u, W), Transpose(d.v))
        e == Col(d.u, 3)
        tr == IF k \in {1, 3} THEN e ELSE Neg(e)
    IN  [i \in 1..3 |-> <<rot[i][1], rot[i][2], rot[i][3], tr[i]>>]

\* the triangulated point has non-negative depth in P0 and in camera c
InFront(c, x4d) ==
    LET x == x4d[1] \div x4d[4]
        y == x4d[2] \div x4d[4]
        z == x4d[3] \div x4d[4]
    IN  /\ z >= 0
        /\ c[3][1] * x + c[3][2] * y + c[3][3] * z + c[3][4] >= 0

\* C6: findPFromF, given a 3x3 double F, triangulates with the candidates in
\* the order [UWV^T|+e], [UWV^T|-e], [UW^TV^T|+e], [UW^TV^T|-e], stops at the
\* first whose point has non-negative depth in both cameras and returns it,
\* rotation block and translation column together; it returns the fourth
\* when none passes, and evaluates no candidate after the one it returns.
PFromFFirstValidCandidate ==
    (ppc = "done" /\ pop = "findPFromF" /\ ValidF(arg)) =>
        LET k == Len(tests)
        IN  /\ k \in 1..4
            /\ p = Mat(3, 4, "CV_64FC1", Candidate(k, svd))
            /\ \A j \in 1..k : tests[j].p = Candidate(j, svd)
            /\ \A j \in 1..(k - 1) : ~InFront(Candidate(j, svd), tests[j].x4d)
            /\ k < 4 => InFront(Candidate(k, svd), tests[k].x4d)

\* the third candidate was the first to pass
PFromFThirdCandidateWitness ==
    /\ ppc = "done"
    /\ pop = "findPFromF"
    /\ ValidF(arg)
    /\ Len(tests) = 3
    /\ p.data = Candidate(3, svd)
    /\ Candidate(3, svd) # Candidate(1, svd)

\* C7: every public operation given an invalid argument returns, with a
\* null/zero/false result: check false for an absent signature, findPFromF
\* the empty matrix, findEpipolesFromF and findRTFromP with their outputs
\* untouched, findFFromWords (inside check) without ending the call.
InvalidInputReturnsSentinel ==
    /\ (cpc = "done" /\ ~BothPresent) => ret = "false"
    /\ cpc = "done" => ret # "abort"
    /\ (ppc = "done" /\ pop = "findPFromF" /\ ~ValidF(arg)) =>
          outcome = "return" /\ p = EmptyMat
    /\ (ppc = "done" /\ pop = "findEpipolesFromF" /\ ~ValidF(arg)) =>
          outcome = "return" /\ e1 = StaleVec /\ e2 = StaleVec
    /\ (ppc = "done" /\ pop = "findRTFromP" /\ ~(arg.rows = 3 /\ arg.cols = 4)) =>
          outcome = "return" /\ r = EmptyMat /\ t = EmptyMat

\* C9: findEpipolesFromF, for a 3x3 double F = U S V^T, sets e1 to the last
\* column of V and e2 to the last column of U; for an F of the wrong size or
\* type it leaves e1 and e2 unchanged.
EpipolesAreLastColumns ==
    [][pop' = "findEpipolesFromF" =>
          IF ValidF(arg')
          THEN e1' = Col(svd'.v, 3) /\ e2' = Col(svd'.u, 3)
          ELSE e1' = e1 /\ e2' = e2
      ]_vars

(***************************************************************************)
(* Properties of batch triangulation.                                      *)
(***************************************************************************)
\* C8: triangulatePoints leaves one cloud point and one error per input
\* pair, reproj_errors[i] being the distance between the reprojection of
\* the i-th triangulated point through P1 and pt_set2[i], and returns the
\* mean of the errors.
ReprojectionErrorInViewB ==
    tpc = "done" =>
        /\ Len(pointcloud) = Len(pt_set1)
        /\ Len(reproj_errors) = Len(pt_set1)
        /\ \A i \in 1..Len(pt_set1) :
              reproj_errors[i] = norm(Minus(Reproject(P1, X[i]), pt_set2[i]))
        /\ meanError = mean(reproj_errors)

\* the estimate is read here: at the head of a pass that recomputes the
\* weights, and by the caller on return
EstimateRead ==
    \/ ipc = "loop" /\ iter < MaxIterations
    \/ ipc = "done" /\ ioutcome = "return"

\* C11: in iterativeLinearLSTriangulation, whenever the estimate X is read
\* (each weight recomputation, and on return) it is the homogeneous point
\* (x, y, z, 1): its fourth element is 1, its first three are those of the
\* most recent solve, and no store has gone past the end of the 3x1 X_;
\* there are at most 10 re-solves, and a call that returns before the tenth
\* has both weights within EPSILON of the previous ones.
IterativeEstimateWellDefined ==
    /\ EstimateRead =>
          /\ Xh[4] = One
          /\ <<Xh[1], Xh[2], Xh[3]>> = X_
          /\ overrun = 0
    /\ iter <= MaxIterations
    /\ ipc = "done" /\ ioutcome = "return" /\ iter < MaxIterations =>
          BreakingPoint(wi, wi1, Weight(camP, Xh), Weight(camP1, Xh))

====
